---- MODULE Spec2Model ----
(***************************************************************************)
(* Leaflet.AlmostOver for Leaflet 2.0: the AlmostOverHandler proximity     *)
(* state machine and the bundled geometry utilities it calls               *)
(* (closest, closestLayer, closestLayerSnap).                              *)
(*                                                                         *)
(* Coordinates are integer pixels in a flat coordinate system whose        *)
(* projection is the identity, so a LatLng and its layer point coincide.   *)
(* A point is a pair <<x, y>>.  A JavaScript exception leaving a function  *)
(* is the value of that function: a record with the field "throw".         *)
(***************************************************************************)
EXTENDS Integers, Sequences, FiniteSets, TLC

VARIABLES
    _layers,      \* this._layers: array of registered leaf layers
    _previous,    \* this._previous: last result of getClosest, or null
    _enabled,     \* Handler: this._enabled, set by enable() and disable()
    hooks,        \* listeners currently subscribed on the map
    lock,         \* Util.throttle: lock
    queuedArgs,   \* Util.throttle: queued arguments, or null
    timer,        \* ms left until the pending setTimeout(later) is due
    sinceRun,     \* ms since _onMouseMove last ran (saturates at the period)
    lastReceived, \* the last mousemove event received while locked, or null
    fired,        \* notifications fired by the last operation, in order
    op,           \* the last operation and the state it started from
    staleRuns,    \* _onMouseMove runs since removeHooks
    staleFired,   \* notifications fired since removeHooks
    announced,    \* the last almost:over or almost:out fired so far, if recorded
    geo           \* a direct call of a geometry utility: its inputs and outcome

vars == <<_layers, _previous, _enabled, hooks, lock, queuedArgs, timer, sinceRun,
          lastReceived, fired, op, staleRuns, staleFired, announced, geo>>

handler == <<_layers, _previous, _enabled, hooks, lock, queuedArgs, timer, sinceRun,
             lastReceived, fired, op, staleRuns, staleFired, announced>>

-----------------------------------------------------------------------------
(* Bounds *)

MaxLayers == 3        \* longest _layers array explored
TicksPerPeriod == 1   \* clock ticks in one sampling period
MaxPixels == 128      \* largest planar distance that occurs
MaxStale == 4         \* cap of the counters kept after removeHooks
MaxShapes == 2        \* longest layers array handed to closestLayer directly
MaxStack == 4         \* nested addLayer / removeLayer calls the call stack holds
MaxAnnounced == 2     \* longest _layers array explored with the history recorded

(* Program constants *)

almostDistance == 25
almostSamplingPeriod == 50
almostOnMouseMove == TRUE
almostOver == TRUE
Infinity == 1000000

TickMs == almostSamplingPeriod \div TicksPerPeriod

null == [null |-> TRUE]
TypeError == [throw |-> "TypeError"]
IsThrow(v) == "throw" \in DOMAIN v
undefined == <<>>     \* what reading past the end of an array gives

-----------------------------------------------------------------------------
(* The layers an application can hand to the handler.  Identity of a layer *)
(* (Util.stamp) is its name.                                               *)

(* A Polyline or Polygon carries the array getLatLngs() returns; flat tells *)
(* whether that array is a flat list of points or a list of such lists     *)
(* (the sub-lines of a Polyline; always so for a Polygon, whose array is   *)
(* the list of its rings).  An Array is a plain array of points or of      *)
(* arrays of points, which closest() and closestLayer() accept as well.    *)
LayerDef ==
    [ lineA  |-> [kind |-> "Polyline", flat |-> TRUE,
                  latlngs |-> << <<0, 0>>, <<40, 0>> >>],
      lineB  |-> [kind |-> "Polyline", flat |-> TRUE,
                  latlngs |-> << <<0, 50>>, <<40, 50>> >>],
      marker |-> [kind |-> "Marker", latlng |-> <<20, 0>>],
      pair   |-> [kind |-> "LayerGroup", layers |-> <<"lineA", "lineB">>],
      nest   |-> [kind |-> "LayerGroup", layers |-> <<"pair", "marker">>],
      circle |-> [kind |-> "Circle", latlng |-> <<20, 40>>, radius |-> 5],
      zig    |-> [kind |-> "Polyline", flat |-> TRUE,
                  latlngs |-> << <<0, 60>>, <<40, 60>>, <<40, 80>>, <<0, 80>> >>],
      multi  |-> [kind |-> "Polyline", flat |-> FALSE,
                  latlngs |-> << << <<0, 60>>, <<40, 60>> >>,
                                 << <<0, 80>>, <<40, 80>> >> >>],
      frag   |-> [kind |-> "Polyline", flat |-> FALSE,
                  latlngs |-> << << <<0, 60>>, <<40, 60>> >>, << <<20, 65>> >> >>],
      dot    |-> [kind |-> "Polyline", flat |-> TRUE, latlngs |-> << <<20, 65>> >>],
      blank  |-> [kind |-> "Polyline", flat |-> TRUE, latlngs |-> << >>],
      poly   |-> [kind |-> "Polygon", flat |-> FALSE,
                  latlngs |-> << << <<40, 60>>, <<40, 90>>, <<0, 90>>, <<0, 60>> >> >>],
      holed  |-> [kind |-> "Polygon", flat |-> FALSE,
                  latlngs |-> << << <<40, 60>>, <<40, 90>>, <<0, 90>>, <<0, 60>> >>,
                                 << <<24, 73>>, <<24, 77>>, <<16, 77>>, <<16, 73>> >> >>],
      hollow |-> [kind |-> "Polygon", flat |-> FALSE, latlngs |-> << << >> >>],
      bare   |-> [kind |-> "Array", flat |-> TRUE, latlngs |-> << >>],
      lists  |-> [kind |-> "Array", flat |-> FALSE,
                  latlngs |-> << << <<0, 60>>, <<40, 60>> >>, << <<20, 65>> >> >>],
      loop   |-> [kind |-> "LayerGroup", layers |-> <<"lineA", "loop">>] ]

(* The layers the application of the state machine registers. *)
LayerIds == {"lineA", "lineB", "marker", "pair", "nest"}
LeafIds == {l \in LayerIds : LayerDef[l].kind # "LayerGroup"}

(* The layers handed to the geometry utilities directly, and the layers    *)
(* and groups handed to addLayer / removeLayer when these are exercised on *)
(* their own.                                                              *)
ShapeIds == DOMAIN LayerDef \ {"loop"}
GroupIds == {"lineA", "pair", "nest", "loop"}

stamp(layer) == layer

(* Positions of pointer events; NoLatLng is an event without a latlng. *)
LatLngs == { <<20, 10>>, <<20, 25>>, <<20, 40>>, <<20, 100>> }
QueryLatLngs == { <<20, 10>>, <<20, 25>>, <<20, 40>>, <<20, 70>> }
NoLatLng == <<>>
MouseEvents == [latlng : LatLngs \cup {NoLatLng}]
ClickEvents == [type : {"click", "dblclick"}, latlng : LatLngs]

-----------------------------------------------------------------------------
(* Planar primitives of the host platform *)

Sqrt(n) == CHOOSE r \in 0..MaxPixels : r * r = n

sqClosestPointOnSegment(p, p1, p2) ==
    LET dx == p2[1] - p1[1]
        dy == p2[2] - p1[2]
        dot == dx * dx + dy * dy
        num == (p[1] - p1[1]) * dx + (p[2] - p1[2]) * dy
    IN  IF dot > 0 /\ num > dot THEN p2
        ELSE IF dot > 0 /\ num > 0
             THEN <<p1[1] + (dx * num) \div dot, p1[2] + (dy * num) \div dot>>
             ELSE p1

closestPointOnSegment(p, p1, p2) == sqClosestPointOnSegment(p, p1, p2)

pointToSegmentDistance(p, p1, p2) ==
    LET c == sqClosestPointOnSegment(p, p1, p2)
    IN  Sqrt((p[1] - c[1]) * (p[1] - c[1]) + (p[2] - c[2]) * (p[2] - c[2]))

-----------------------------------------------------------------------------
(* Geometry utilities *)

distanceSegment(latlng, latlngA, latlngB) ==
    pointToSegmentDistance(latlng, latlngA, latlngB)

closestOnSegment(latlng, latlngA, latlngB) ==
    closestPointOnSegment(latlng, latlngA, latlngB)

(* closest(): the scan of the consecutive segments of a flat point list,  *)
(* lines 166-176.  acc is [mindist, result].                              *)
RECURSIVE closestSegments(_, _, _, _)
closestSegments(latlngs, latlng, i, acc) ==
    IF i > Len(latlngs) - 1 THEN acc.result
    ELSE LET latlngA == latlngs[i]
             latlngB == latlngs[i + 1]
             distance == distanceSegment(latlng, latlngA, latlngB)
         IN  IF distance <= acc.mindist
             THEN closestSegments(latlngs, latlng, i + 1,
                      [mindist |-> distance,
                       result |-> [latlng |-> closestOnSegment(latlng, latlngA, latlngB),
                                   distance |-> distance]])
             ELSE closestSegments(latlngs, latlng, i + 1, acc)

(* isFlat(), and the test of lines 107 and 116-118 on a plain array: the   *)
(* array is a list of points rather than a list of lists.  An empty array  *)
(* is flat.                                                                *)
isFlat(layer) == layer.flat

(* closest() on a flat point list, lines 152-177.  In vertex mode the      *)
(* first vertex reads this.distance with this undefined.                   *)
closestFlat(latlngs, latlng, vertices) ==
    IF vertices
    THEN IF Len(latlngs) > 0 THEN TypeError ELSE null
    ELSE closestSegments(latlngs, latlng, 1, [mindist |-> Infinity, result |-> null])

(* closest() given a plain array of points, lines 106-123: layer[0][0] is  *)
(* read to tell what the array holds, which fails when layer[0] is         *)
(* undefined; otherwise the array becomes a Polyline (line 119).           *)
closestOfArray(latlngs, latlng, vertices) ==
    IF Len(latlngs) = 0 THEN TypeError
    ELSE IF latlngs[1] = undefined THEN TypeError
    ELSE closestFlat(latlngs, latlng, vertices)

(* closest() given an array of arrays, lines 108-115: a child without a    *)
(* result is skipped.  acc is [mindist, result] or the exception that left *)
(* the loop.                                                               *)
keepCloserChecked(acc, subResult) ==
    IF IsThrow(subResult) THEN subResult
    ELSE IF subResult = null THEN acc
    ELSE IF subResult.distance < acc.mindist
         THEN [mindist |-> subResult.distance, result |-> subResult]
         ELSE acc

RECURSIVE closestArrays(_, _, _, _, _)
closestArrays(latlngs, latlng, vertices, i, acc) ==
    IF IsThrow(acc) THEN acc
    ELSE IF i > Len(latlngs) THEN acc.result
    ELSE closestArrays(latlngs, latlng, vertices, i + 1,
                       keepCloserChecked(acc, closestOfArray(latlngs[i], latlng, vertices)))

(* closest() on the rings or sub-lines of a nested point list, 143-151:   *)
(* each child is an array of points handed to closest(); the result of a   *)
(* child is dereferenced without a null check.  acc is [mindist, result]   *)
(* or the exception that left the loop.                                    *)
keepCloser(acc, subResult) ==
    IF IsThrow(subResult) THEN subResult
    ELSE IF subResult = null THEN TypeError
    ELSE IF subResult.distance < acc.mindist
         THEN [mindist |-> subResult.distance, result |-> subResult]
         ELSE acc

RECURSIVE closestNested(_, _, _, _, _)
closestNested(latlngs, latlng, vertices, i, acc) ==
    IF IsThrow(acc) THEN acc
    ELSE IF i > Len(latlngs) THEN acc.result
    ELSE closestNested(latlngs, latlng, vertices, i + 1,
                       keepCloser(acc, closestOfArray(latlngs[i], latlng, vertices)))

\* the rings are left open
addLastSegmentNone(latlngsArr) == latlngsArr

(* Polygon.getLatLngs() is a list of rings; addLastSegment pushes the      *)
(* first point of each ring at its end (undefined when the ring is empty). *)
addLastSegment(latlngsArr) ==
    [i \in DOMAIN latlngsArr |->
        Append(latlngsArr[i],
               IF Len(latlngsArr[i]) = 0 THEN undefined ELSE latlngsArr[i][1])]

(* line 128: latlngs is parsed from the JSON text of the layer's array, so *)
(* it shares nothing with it, and the pushes of addLastSegment land on the *)
(* copy.  ownLatLngsAfter is the layer's own array once closest() is done. *)
aliased == FALSE

ownLatLngsAfter(layer) ==
    IF layer.kind = "Polygon" /\ aliased
    THEN addLastSegment(layer.latlngs)
    ELSE layer.latlngs

closest(layer, latlng, vertices) ==
    IF layer.kind = "Array"
    THEN IF isFlat(layer)
         THEN closestOfArray(layer.latlngs, latlng, vertices)
         ELSE closestArrays(layer.latlngs, latlng, vertices, 1,
                            [mindist |-> Infinity, result |-> null])
    ELSE IF layer.kind = "Polyline"
    THEN IF isFlat(layer)
         THEN closestFlat(layer.latlngs, latlng, vertices)
         ELSE closestNested(layer.latlngs, latlng, vertices, 1,
                            [mindist |-> Infinity, result |-> null])
    ELSE IF layer.kind = "Polygon"
    THEN closestNested(addLastSegment(layer.latlngs), latlng, vertices, 1,
                       [mindist |-> Infinity, result |-> null])
    ELSE null

(* closestOnCircle(): the centre plus the radius along the normalised      *)
(* vector from the centre to latLng.  Normalising the zero vector gives    *)
(* NaN coordinates, which the LatLng constructor rejects.                  *)
closestOnCircle(circle, latLng) ==
    LET dx == latLng[1] - circle.latlng[1]
        dy == latLng[2] - circle.latlng[2]
        distance == Sqrt(dx * dx + dy * dy)
    IN  IF distance = 0
        THEN [throw |-> "Error"]
        ELSE [latlng |-> <<circle.latlng[1] + (dx * circle.radius) \div distance,
                           circle.latlng[2] + (dy * circle.radius) \div distance>>]

(* closestLayer() carries four variables from one layer to the next:      *)
(* acc is [mindist, result, ll, distance], or the exception that left the  *)
(* loop.                                                                   *)

(* lines 199-203: a LayerGroup among the layers *)
keepCloserGroup(acc, subResult) ==
    IF IsThrow(subResult) THEN subResult
    ELSE IF subResult = null THEN TypeError
    ELSE IF subResult.distance < acc.mindist
         THEN [acc EXCEPT !.mindist = subResult.distance, !.result = subResult]
         ELSE acc

(* lines 205-207: a Circle; this.distance is read with this undefined *)
circleCandidate(acc, layer, ll) ==
    IF IsThrow(ll) THEN ll ELSE TypeError

(* lines 208-210: a layer with getLatLng; this.distance likewise *)
pointCandidate(acc, layer) == TypeError

\* a layer as close as the closest so far replaces it: the last of equally
\* close layers wins
keepCloserLayerOrEqual(acc, layer, ll) ==
    IF IsThrow(ll) THEN ll
    ELSE IF ll = null
         THEN IF acc.distance < acc.mindist
              THEN [mindist |-> acc.distance,
                    result |-> [layer |-> layer, latlng |-> null,
                                distance |-> acc.distance],
                    ll |-> ll, distance |-> acc.distance]
              ELSE [acc EXCEPT !.ll = ll]
    ELSE IF ll.distance <= acc.mindist
         THEN [mindist |-> ll.distance,
               result |-> [layer |-> layer, latlng |-> ll.latlng,
                           distance |-> ll.distance],
               ll |-> ll, distance |-> ll.distance]
         ELSE [acc EXCEPT !.ll = ll, !.distance = ll.distance]

\* a layer without a closest point wins when the distance left from the
\* layer before it equals the least distance so far
keepCloserLayerLeftover(acc, layer, ll) ==
    IF IsThrow(ll) THEN ll
    ELSE IF ll = null
         THEN IF acc.distance <= acc.mindist
              THEN [mindist |-> acc.distance,
                    result |-> [layer |-> layer, latlng |-> null,
                                distance |-> acc.distance],
                    ll |-> ll, distance |-> acc.distance]
              ELSE [acc EXCEPT !.ll = ll]
    ELSE IF ll.distance < acc.mindist
         THEN [mindist |-> ll.distance,
               result |-> [layer |-> layer, latlng |-> ll.latlng,
                           distance |-> ll.distance],
               ll |-> ll, distance |-> ll.distance]
         ELSE [acc EXCEPT !.ll = ll, !.distance = ll.distance]

(* lines 212-222: any other layer; ll is what closest() returned, and      *)
(* distance keeps its value when ll is null                                *)
keepCloserLayer(acc, layer, ll) ==
    IF IsThrow(ll) THEN ll
    ELSE IF ll = null
         THEN IF acc.distance < acc.mindist
              THEN [mindist |-> acc.distance,
                    result |-> [layer |-> layer, latlng |-> null,
                                distance |-> acc.distance],
                    ll |-> ll, distance |-> acc.distance]
              ELSE [acc EXCEPT !.ll = ll]
    ELSE IF ll.distance < acc.mindist
         THEN [mindist |-> ll.distance,
               result |-> [layer |-> layer, latlng |-> ll.latlng,
                           distance |-> ll.distance],
               ll |-> ll, distance |-> ll.distance]
         ELSE [acc EXCEPT !.ll = ll, !.distance = ll.distance]

RECURSIVE closestLayer(_, _)
RECURSIVE closestLayerFrom(_, _, _, _)

(* the body of the loop, lines 197-223, for one layer *)
visitLayer(acc, layer, latlng) ==
    IF LayerDef[layer].kind = "LayerGroup"
    THEN keepCloserGroup(acc, closestLayer(LayerDef[layer].layers, latlng))
    ELSE IF LayerDef[layer].kind = "Circle"
    THEN circleCandidate(acc, layer, closestOnCircle(LayerDef[layer], latlng))
    ELSE IF LayerDef[layer].kind = "Marker"
    THEN pointCandidate(acc, layer)
    ELSE keepCloserLayer(acc, layer, closest(LayerDef[layer], latlng, FALSE))

closestLayerFrom(layers, latlng, i, acc) ==
    IF IsThrow(acc) THEN acc
    ELSE IF i > Len(layers) THEN acc.result
    ELSE closestLayerFrom(layers, latlng, i + 1, visitLayer(acc, layers[i], latlng))

closestLayer(layers, latlng) ==
    closestLayerFrom(layers, latlng, 1,
        [mindist |-> Infinity, result |-> null, ll |-> null, distance |-> Infinity])

HasGetLatLngs(layer) == LayerDef[layer].kind \in {"Polyline", "Polygon"}

(* lines 248-252: the vertex refinement; its distance is recomputed with   *)
(* this.distance, this undefined                                           *)
refine(result, closestResult, tolerance) ==
    IF IsThrow(closestResult) THEN closestResult
    ELSE IF closestResult = null THEN TypeError
    ELSE IF closestResult.distance < tolerance THEN TypeError
    ELSE result

\* a distance equal to the tolerance counted as a miss
snapResultStrict(result, tolerance, withVertices) ==
    IF IsThrow(result) THEN result
    ELSE IF result = null THEN null
    ELSE IF result.distance >= tolerance THEN null
    ELSE IF withVertices /\ HasGetLatLngs(result.layer)
         THEN refine(result, closest(LayerDef[result.layer], result.latlng, TRUE),
                     tolerance)
         ELSE result

(* lines 244-254, result being what closestLayer() returned *)
snapResult(result, tolerance, withVertices) ==
    IF IsThrow(result) THEN result
    ELSE IF result = null THEN null
    ELSE IF result.distance > tolerance THEN null
    ELSE IF withVertices /\ HasGetLatLngs(result.layer)
         THEN refine(result, closest(LayerDef[result.layer], result.latlng, TRUE),
                     tolerance)
         ELSE result

closestLayerSnap(layers, latlng, tolerance, withVertices) ==
    snapResult(closestLayer(layers, latlng), tolerance, withVertices)

-----------------------------------------------------------------------------
(* AlmostOverHandler *)

getClosest(layers, latlng) ==
    closestLayerSnap(layers, latlng, almostDistance, FALSE)

Over(snapped) ==
    [type |-> "almost:over", layer |-> snapped.layer, latlng |-> snapped.latlng]
Out(previous) ==
    [type |-> "almost:out", layer |-> previous.layer]
Move(snapped) ==
    [type |-> "almost:move", layer |-> snapped.layer, latlng |-> snapped.latlng]

(* Variants of the body of _onMouseMove with one slip each. *)

\* 'over' fired before 'out' when the layer changes
fireOverFirst(e, previous, snapped) ==
    IF IsThrow(snapped)
    THEN [fired |-> <<>>, previous |-> previous, threw |-> TRUE]
    ELSE IF snapped # null
    THEN [fired |->
             (IF previous = null
              THEN <<Over(snapped)>>
              ELSE IF stamp(previous.layer) # stamp(snapped.layer)
                   THEN <<Over(snapped), Out(previous)>>
                   ELSE <<>>)
             \o <<Move(snapped)>>,
          previous |-> snapped, threw |-> FALSE]
    ELSE [fired |-> IF previous # null THEN <<Out(previous)>> ELSE <<>>,
          previous |-> snapped, threw |-> FALSE]

\* this._previous assigned only when a layer was found
fireKeepPrevious(e, previous, snapped) ==
    IF IsThrow(snapped)
    THEN [fired |-> <<>>, previous |-> previous, threw |-> TRUE]
    ELSE IF snapped # null
    THEN [fired |->
             (IF previous = null
              THEN <<Over(snapped)>>
              ELSE IF stamp(previous.layer) # stamp(snapped.layer)
                   THEN <<Out(previous), Over(snapped)>>
                   ELSE <<>>)
             \o <<Move(snapped)>>,
          previous |-> snapped, threw |-> FALSE]
    ELSE [fired |-> IF previous # null THEN <<Out(previous)>> ELSE <<>>,
          previous |-> previous, threw |-> FALSE]

\* 'over' carries the pointer position instead of the snapped one
fireOverAtPointer(e, previous, snapped) ==
    IF IsThrow(snapped)
    THEN [fired |-> <<>>, previous |-> previous, threw |-> TRUE]
    ELSE IF snapped # null
    THEN [fired |->
             (IF previous = null
              THEN <<[type |-> "almost:over", layer |-> snapped.layer,
                      latlng |-> e.latlng]>>
              ELSE IF stamp(previous.layer) # stamp(snapped.layer)
                   THEN <<Out(previous), Over(snapped)>>
                   ELSE <<>>)
             \o <<Move(snapped)>>,
          previous |-> snapped, threw |-> FALSE]
    ELSE [fired |-> IF previous # null THEN <<Out(previous)>> ELSE <<>>,
          previous |-> snapped, threw |-> FALSE]

\* 'move' fired only when neither 'over' nor 'out' is
fireMoveElse(e, previous, snapped) ==
    IF IsThrow(snapped)
    THEN [fired |-> <<>>, previous |-> previous, threw |-> TRUE]
    ELSE IF snapped # null
    THEN [fired |->
             (IF previous = null
              THEN <<Over(snapped)>>
              ELSE IF stamp(previous.layer) # stamp(snapped.layer)
                   THEN <<Out(previous), Over(snapped)>>
                   ELSE <<Move(snapped)>>),
          previous |-> snapped, threw |-> FALSE]
    ELSE [fired |-> IF previous # null THEN <<Out(previous)>> ELSE <<>>,
          previous |-> snapped, threw |-> FALSE]

\* 'out' names the layer found instead of the layer left
fireOutOfSnapped(e, previous, snapped) ==
    IF IsThrow(snapped)
    THEN [fired |-> <<>>, previous |-> previous, threw |-> TRUE]
    ELSE IF snapped # null
    THEN [fired |->
             (IF previous = null
              THEN <<Over(snapped)>>
              ELSE IF stamp(previous.layer) # stamp(snapped.layer)
                   THEN <<Out(snapped), Over(snapped)>>
                   ELSE <<>>)
             \o <<Move(snapped)>>,
          previous |-> snapped, threw |-> FALSE]
    ELSE [fired |-> IF previous # null THEN <<Out(previous)>> ELSE <<>>,
          previous |-> snapped, threw |-> FALSE]

(* _onMouseMove(e) from line 564 on, snapped being what getClosest()       *)
(* returned: the notifications fired, the new this._previous, and whether  *)
(* an exception left the handler.                                          *)
fireTransitions(e, previous, snapped) ==
    IF IsThrow(snapped)
    THEN [fired |-> <<>>, previous |-> previous, threw |-> TRUE]
    ELSE IF snapped # null
    THEN [fired |->
             (IF previous = null
              THEN <<Over(snapped)>>
              ELSE IF stamp(previous.layer) # stamp(snapped.layer)
                   THEN <<Out(previous), Over(snapped)>>
                   ELSE <<>>)
             \o <<Move(snapped)>>,
          previous |-> snapped, threw |-> FALSE]
    ELSE [fired |-> IF previous # null THEN <<Out(previous)>> ELSE <<>>,
          previous |-> snapped, threw |-> FALSE]

(* _onMouseMove(e) *)
onMouseMove(layers, previous, e) ==
    IF e.latlng = NoLatLng
    THEN [fired |-> <<>>, previous |-> previous, threw |-> FALSE]
    ELSE fireTransitions(e, previous, getClosest(layers, e.latlng))

\* every notification of a click handler is named 'almost:click'
fireClickFixedType(e, snapped) ==
    IF IsThrow(snapped) THEN <<>>
    ELSE IF snapped # null
         THEN <<[type |-> "almost:click", layer |-> snapped.layer,
                 latlng |-> snapped.latlng]>>
         ELSE <<>>

(* _onMouseClick(e) from line 590 on *)
fireClick(e, snapped) ==
    IF IsThrow(snapped) THEN <<>>
    ELSE IF snapped # null
         THEN <<[type |-> "almost:" \o e.type, layer |-> snapped.layer,
                 latlng |-> snapped.latlng]>>
         ELSE <<>>

(* _onMouseClick(e) *)
onMouseClick(layers, e) == fireClick(e, getClosest(layers, e.latlng))

(* addLayer(layer) entered with depth calls on the stack.  acc is          *)
(* [layers, threw]: this._layers so far, and whether the RangeError of an  *)
(* exhausted call stack is on its way out of the recursion.                *)
RECURSIVE addLayerAt(_, _, _)
RECURSIVE addEachAt(_, _, _, _)
addEachAt(acc, children, i, depth) ==
    IF acc.threw \/ i > Len(children) THEN acc
    ELSE addEachAt(addLayerAt(acc, children[i], depth), children, i + 1, depth)
addLayerAt(acc, layer, depth) ==
    IF depth > MaxStack THEN [acc EXCEPT !.threw = TRUE]
    ELSE IF LayerDef[layer].kind = "LayerGroup"
    THEN addEachAt(acc, LayerDef[layer].layers, 1, depth + 1)
    ELSE [acc EXCEPT !.layers = Append(@, layer)]

\* a group is expanded one level only: its children are pushed as they are
addLayerOneLevel(layers, layer) ==
    IF LayerDef[layer].kind = "LayerGroup"
    THEN layers \o LayerDef[layer].layers
    ELSE Append(layers, layer)

(* addLayer(layer) on the array layers: the array afterwards *)
addLayer(layers, layer) ==
    addLayerAt([layers |-> layers, threw |-> FALSE], layer, 1).layers

indexOf(layers, layer) ==
    IF \E i \in DOMAIN layers : layers[i] = layer
    THEN CHOOSE i \in DOMAIN layers :
             layers[i] = layer /\ \A j \in 1..(i - 1) : layers[j] # layer
    ELSE 0

splice(layers, index) ==
    [i \in 1..(Len(layers) - 1) |-> IF i < index THEN layers[i] ELSE layers[i + 1]]

(* removeLayer(layer) entered with depth calls on the stack; acc as in     *)
(* addLayerAt                                                              *)
spliceFirst(layers, index) ==
    IF index >= 1 THEN splice(layers, index) ELSE layers

RECURSIVE removeLayerAt(_, _, _)
RECURSIVE removeEachAt(_, _, _, _)
removeEachAt(acc, children, i, depth) ==
    IF acc.threw \/ i > Len(children) THEN acc
    ELSE removeEachAt(removeLayerAt(acc, children[i], depth), children, i + 1, depth)
removeLayerAt(acc, layer, depth) ==
    IF depth > MaxStack THEN [acc EXCEPT !.threw = TRUE]
    ELSE IF LayerDef[layer].kind = "LayerGroup"
    THEN removeEachAt(acc, LayerDef[layer].layers, 1, depth + 1)
    ELSE [acc EXCEPT !.layers = spliceFirst(@, indexOf(@, layer))]

(* removeLayer(layer) on the array layers: the array afterwards *)
removeLayer(layers, layer) ==
    removeLayerAt([layers |-> layers, threw |-> FALSE], layer, 1).layers

-----------------------------------------------------------------------------
(* State machine *)

Min(a, b) == IF a < b THEN a ELSE b
Max(a, b) == IF a > b THEN a ELSE b

(* The history of almost:over and almost:out is recorded only in the      *)
(* specification that starts with announced = null.                       *)
unrecorded == [unrecorded |-> TRUE]

(* The last almost:over or almost:out among the notifications fired, or   *)
(* the one before them when they hold none.                               *)
RECURSIVE lastAnnounced(_, _, _)
lastAnnounced(before, notifications, i) ==
    IF before = unrecorded \/ i > Len(notifications) THEN before
    ELSE IF notifications[i].type \in {"almost:over", "almost:out"}
    THEN lastAnnounced([type |-> notifications[i].type,
                        layer |-> notifications[i].layer], notifications, i + 1)
    ELSE lastAnnounced(before, notifications, i + 1)

(* The record of an operation: its kind and argument, whether it ran      *)
(* _onMouseMove, and, for the pointer handlers, the this._previous and    *)
(* the time since the last run that it started from.                      *)
Op(kind, arg, ran) ==
    [kind |-> kind, arg |-> arg, ran |-> ran,
     prev |-> IF ran \/ kind \in {"click", "dblclick", "removeLayer"}
              THEN _previous ELSE null,
     gap |-> IF ran THEN sinceRun ELSE 0]

HandlerInit ==
    /\ _layers = <<>>
    /\ _previous = null
    /\ _enabled = almostOver
    /\ hooks = [mousemove |-> almostOver /\ almostOnMouseMove, click |-> almostOver]
    /\ lock = FALSE
    /\ queuedArgs = null
    /\ timer = 0
    /\ sinceRun = almostSamplingPeriod
    /\ lastReceived = null
    /\ fired = <<>>
    /\ op = [kind |-> "initialize", arg |-> null, ran |-> FALSE, prev |-> null,
             gap |-> 0]
    /\ staleRuns = 0
    /\ staleFired = 0

(* No geometry utility has been called directly. *)
NoCall ==
    [layers |-> <<>>, latlng |-> NoLatLng, fn |-> "none", arg |-> null,
     ret |-> null, own |-> null]

Init == HandlerInit /\ announced = unrecorded /\ geo = NoCall

(* fn.apply(context, args); setTimeout(later, time); lock = true          *)
(* inside the throttle wrapper, r being the outcome of fn: an exception   *)
(* in fn skips the last two.                                              *)
LockAfter(r) ==
    /\ _previous' = r.previous
    /\ fired' = r.fired
    /\ announced' = lastAnnounced(announced, r.fired, 1)
    /\ lock' = ~r.threw
    /\ timer' = IF r.threw THEN 0 ELSE almostSamplingPeriod
    /\ sinceRun' = 0
    /\ staleRuns' = IF ~_enabled THEN Min(staleRuns + 1, MaxStale) ELSE staleRuns
    /\ staleFired' = IF ~_enabled THEN Min(staleFired + Len(r.fired), MaxStale)
                                  ELSE staleFired

CallAndLock(e) == LockAfter(onMouseMove(_layers, _previous, e))

(* A mousemove event of the map reaches this._mouseMoveSampler. *)
MouseMoveSampler(e) ==
    /\ hooks.mousemove
    /\ IF lock
       THEN /\ queuedArgs' = e
            /\ lastReceived' = e
            /\ fired' = <<>>
            /\ op' = Op("mousemove", e, FALSE)
            /\ UNCHANGED <<_previous, lock, timer, sinceRun, staleRuns, staleFired,
                           announced>>
       ELSE /\ CallAndLock(e)
            /\ op' = Op("mousemove", e, TRUE)
            /\ UNCHANGED <<queuedArgs, lastReceived>>
    /\ UNCHANGED <<_layers, _enabled, hooks, geo>>

(* The timer of the throttle fires: later(). *)
Later ==
    /\ lock
    /\ timer = 0
    /\ IF queuedArgs = null
       THEN /\ lock' = FALSE
            /\ fired' = <<>>
            /\ op' = Op("later", null, FALSE)
            /\ UNCHANGED <<_previous, queuedArgs, timer, sinceRun, staleRuns, staleFired,
                           announced>>
       ELSE /\ CallAndLock(queuedArgs)
            /\ queuedArgs' = IF lock' THEN null ELSE queuedArgs
            /\ op' = Op("later", queuedArgs, TRUE)
    /\ lastReceived' = null
    /\ UNCHANGED <<_layers, _enabled, hooks, geo>>

(* A click or dblclick event of the map reaches this._onMouseClick. *)
OnMouseClick(e) ==
    /\ hooks.click
    /\ fired' = onMouseClick(_layers, e)
    /\ announced' = lastAnnounced(announced, onMouseClick(_layers, e), 1)
    /\ op' = Op(e.type, e, FALSE)
    /\ staleFired' = IF ~_enabled THEN Min(staleFired + Len(fired'), MaxStale)
                                  ELSE staleFired
    /\ UNCHANGED <<_layers, _previous, _enabled, hooks, lock, queuedArgs, timer, sinceRun,
                   lastReceived, staleRuns, geo>>

(* enable(): addHooks() unless already enabled *)
AddHooks ==
    /\ ~_enabled
    /\ _enabled' = TRUE
    /\ hooks' = [mousemove |-> almostOnMouseMove, click |-> TRUE]
    /\ fired' = <<>>
    /\ op' = Op("addHooks", null, FALSE)
    /\ staleRuns' = 0
    /\ staleFired' = 0
    /\ UNCHANGED <<_layers, _previous, lock, queuedArgs, timer, sinceRun, lastReceived,
                   announced, geo>>

\* removeHooks() that forgets the click and dblclick listener
RemoveHooksMouseMoveOnly ==
    /\ _enabled
    /\ _enabled' = FALSE
    /\ hooks' = [mousemove |-> FALSE, click |-> hooks.click]
    /\ fired' = <<>>
    /\ op' = Op("removeHooks", null, FALSE)
    /\ staleRuns' = 0
    /\ staleFired' = 0
    /\ UNCHANGED <<_layers, _previous, lock, queuedArgs, timer, sinceRun, lastReceived,
                   announced, geo>>

(* disable(): removeHooks() unless already disabled *)
RemoveHooks ==
    /\ _enabled
    /\ _enabled' = FALSE
    /\ hooks' = [mousemove |-> FALSE, click |-> FALSE]
    /\ fired' = <<>>
    /\ op' = Op("removeHooks", null, FALSE)
    /\ staleRuns' = 0
    /\ staleFired' = 0
    /\ UNCHANGED <<_layers, _previous, lock, queuedArgs, timer, sinceRun, lastReceived,
                   announced, geo>>

(* The longest this._layers explored. *)
LayersBound == IF announced = unrecorded THEN MaxLayers ELSE MaxAnnounced

AddLayer(layer) ==
    /\ Len(addLayer(_layers, layer)) <= LayersBound
    /\ _layers' = addLayer(_layers, layer)
    /\ fired' = <<>>
    /\ op' = Op("addLayer", layer, FALSE)
    /\ UNCHANGED <<_previous, _enabled, hooks, lock, queuedArgs, timer, sinceRun, lastReceived,
                   staleRuns, staleFired, announced, geo>>

\* removeLayer() that leaves this._previous as it is
RemoveLayerKeepPrevious(layer) ==
    /\ _layers' = removeLayer(_layers, layer)
    /\ fired' = <<>>
    /\ op' = Op("removeLayer", layer, FALSE)
    /\ UNCHANGED <<_previous, _enabled, hooks, lock, queuedArgs, timer, sinceRun,
                   lastReceived, staleRuns, staleFired, announced, geo>>

\* this._previous reset only when the layer was found in this._layers
RemoveLayerResetIfFound(layer) ==
    /\ _layers' = removeLayer(_layers, layer)
    /\ _previous' = IF _layers' # _layers THEN null ELSE _previous
    /\ fired' = <<>>
    /\ op' = Op("removeLayer", layer, FALSE)
    /\ UNCHANGED <<_enabled, hooks, lock, queuedArgs, timer, sinceRun, lastReceived,
                   staleRuns, staleFired, announced, geo>>

RemoveLayer(layer) ==
    /\ _layers' = removeLayer(_layers, layer)
    /\ _previous' = null
    /\ fired' = <<>>
    /\ op' = Op("removeLayer", layer, FALSE)
    /\ UNCHANGED <<_enabled, hooks, lock, queuedArgs, timer, sinceRun, lastReceived,
                   staleRuns, staleFired, announced, geo>>

(* TickMs milliseconds pass. *)
Tick ==
    /\ (lock /\ timer > 0) \/ sinceRun < almostSamplingPeriod
    /\ timer' = Max(0, timer - TickMs)
    /\ sinceRun' = Min(almostSamplingPeriod, sinceRun + TickMs)
    /\ fired' = <<>>
    /\ op' = Op("tick", null, FALSE)
    /\ UNCHANGED <<_layers, _previous, _enabled, hooks, lock, queuedArgs, lastReceived,
                   staleRuns, staleFired, announced, geo>>

Next ==
    \/ \E e \in MouseEvents : MouseMoveSampler(e)
    \/ Later
    \/ \E e \in ClickEvents : OnMouseClick(e)
    \/ AddHooks
    \/ RemoveHooks
    \/ \E layer \in LayerIds : AddLayer(layer)
    \/ \E layer \in LayerIds : RemoveLayer(layer)
    \/ Tick

Spec == Init /\ [][Next]_vars

(* The handler with the history of almost:over and almost:out recorded. *)
AnnouncedInit == HandlerInit /\ announced = null /\ geo = NoCall

AnnouncedSpec == AnnouncedInit /\ [][Next]_vars

-----------------------------------------------------------------------------
(* The geometry utilities and addLayer / removeLayer applied on their own *)

(* Distances are whole pixels in this model, so the inputs are the layers  *)
(* and positions whose segment distances are whole numbers.                *)
IsSquare(n) == \E r \in 0..MaxPixels : r * r = n

sqDistanceSegment(p, p1, p2) ==
    LET c == sqClosestPointOnSegment(p, p1, p2)
    IN  (p[1] - c[1]) * (p[1] - c[1]) + (p[2] - c[2]) * (p[2] - c[2])

MeasurableList(latlngs, latlng) ==
    \A i \in 1..(Len(latlngs) - 1) :
        latlngs[i + 1] = undefined
        \/ IsSquare(sqDistanceSegment(latlng, latlngs[i], latlngs[i + 1]))

MeasurableLayer(layer, latlng) ==
    IF layer.kind \in {"Polyline", "Array"}
    THEN IF isFlat(layer)
         THEN MeasurableList(layer.latlngs, latlng)
         ELSE \A k \in DOMAIN layer.latlngs : MeasurableList(layer.latlngs[k], latlng)
    ELSE IF layer.kind = "Polygon"
    THEN \A k \in DOMAIN layer.latlngs :
             MeasurableList(addLastSegment(layer.latlngs)[k], latlng)
    ELSE IF layer.kind = "Circle"
    THEN latlng[1] = layer.latlng[1] \/ latlng[2] = layer.latlng[2]
    ELSE TRUE

(* The layers reached from a layer through LayerGroups, itself included. *)
RECURSIVE Reach(_, _)
Reach(S, n) ==
    IF n = 0 THEN S
    ELSE Reach(S \cup UNION { IF LayerDef[l].kind = "LayerGroup"
                              THEN {LayerDef[l].layers[i] : i \in DOMAIN LayerDef[l].layers}
                              ELSE {} : l \in S }, n - 1)

Descendants(layer) == Reach({layer}, Cardinality(DOMAIN LayerDef))

Measurable(layer, latlng) ==
    \A l \in Descendants(layer) : MeasurableLayer(LayerDef[l], latlng)

Collections == UNION { [1..n -> ShapeIds] : n \in 0..MaxShapes }

GeoInit ==
    /\ HandlerInit
    /\ announced = unrecorded
    /\ geo \in { [NoCall EXCEPT !.layers = layers, !.latlng = latlng] :
                     <<layers, latlng>> \in
                         { c \in Collections \X QueryLatLngs :
                               \A i \in DOMAIN c[1] : Measurable(c[1][i], c[2]) } }

(* closest(map, layer, latlng, vertices) on one of the layers *)
CallClosest(i, vertices) ==
    /\ i \in DOMAIN geo.layers
    /\ geo' = [geo EXCEPT
                  !.fn = "closest",
                  !.arg = [layer |-> geo.layers[i], vertices |-> vertices],
                  !.ret = closest(LayerDef[geo.layers[i]], geo.latlng, vertices),
                  !.own = IF "latlngs" \in DOMAIN LayerDef[geo.layers[i]]
                          THEN ownLatLngsAfter(LayerDef[geo.layers[i]])
                          ELSE null]
    /\ UNCHANGED handler

(* closestLayer(map, layers, latlng) *)
CallClosestLayer ==
    /\ geo' = [geo EXCEPT
                  !.fn = "closestLayer",
                  !.arg = null,
                  !.ret = closestLayer(geo.layers, geo.latlng),
                  !.own = null]
    /\ UNCHANGED handler

(* The tolerances closestLayerSnap is called with directly. *)
Tolerances == {3, 10, almostDistance}

(* closestLayerSnap(map, layers, latlng, tolerance, withVertices) *)
CallClosestLayerSnap(tolerance, withVertices) ==
    /\ geo' = [geo EXCEPT
                  !.fn = "closestLayerSnap",
                  !.arg = [tolerance |-> tolerance, withVertices |-> withVertices],
                  !.ret = closestLayerSnap(geo.layers, geo.latlng, tolerance,
                                           withVertices),
                  !.own = null]
    /\ UNCHANGED handler

(* this._layers when the leaf layers among layers were registered in turn *)
IsLeaf(layer) == LayerDef[layer].kind # "LayerGroup"
registered(layers) == SelectSeq(layers, IsLeaf)

(* addLayer(layer) with this._layers = registered(geo.layers) *)
CallAddLayer(layer) ==
    /\ geo' = [geo EXCEPT
                  !.fn = "addLayer",
                  !.arg = [layer |-> layer],
                  !.ret = addLayerAt([layers |-> registered(geo.layers),
                                      threw |-> FALSE], layer, 1),
                  !.own = null]
    /\ UNCHANGED handler

(* removeLayer(layer) with this._layers = registered(geo.layers) *)
CallRemoveLayer(layer) ==
    /\ geo' = [geo EXCEPT
                  !.fn = "removeLayer",
                  !.arg = [layer |-> layer],
                  !.ret = removeLayerAt([layers |-> registered(geo.layers),
                                         threw |-> FALSE], layer, 1),
                  !.own = null]
    /\ UNCHANGED handler

GeoNext ==
    \/ \E i \in 1..MaxShapes, vertices \in BOOLEAN : CallClosest(i, vertices)
    \/ CallClosestLayer
    \/ \E tolerance \in Tolerances, withVertices \in BOOLEAN :
           CallClosestLayerSnap(tolerance, withVertices)
    \/ \E layer \in GroupIds : CallAddLayer(layer)
    \/ \E layer \in GroupIds : CallRemoveLayer(layer)

GeoSpec == GeoInit /\ [][GeoNext]_vars

-----------------------------------------------------------------------------
(* Properties of the proximity state machine *)

(* The last operation ran _onMouseMove on an event that has a latlng. *)
Processed ==
    /\ op.kind \in {"mousemove", "later"}
    /\ op.ran
    /\ op.arg.latlng # NoLatLng

(* What the snap of the processed sample returned (this._layers is not    *)
(* changed by the handler).                                               *)
Snap == getClosest(_layers, op.arg.latlng)
SnapPresent == ~IsThrow(Snap) /\ Snap # null
SnapAbsent == Snap = null

(* C1: a processed sample that snaps to layer B while layer A # B is       *)
(* tracked fires out(A), then over(B), then move(B), and B becomes the     *)
(* tracked layer.                                                          *)
C1_OutThenOver ==
    (Processed /\ SnapPresent /\ op.prev # null /\ op.prev.layer # Snap.layer)
    => /\ fired = << [type |-> "almost:out", layer |-> op.prev.layer],
                     [type |-> "almost:over", layer |-> Snap.layer, latlng |-> Snap.latlng],
                     [type |-> "almost:move", layer |-> Snap.layer, latlng |-> Snap.latlng] >>
       /\ _previous # null
       /\ _previous.layer = Snap.layer

C1_Witness ==
    /\ Processed /\ SnapPresent /\ op.prev # null
    /\ op.prev.layer = "lineA" /\ Snap.layer = "lineB"
    /\ Len(fired) = 3

(* C3: a processed sample whose snap is absent fires exactly out(s) and    *)
(* goes to Idle when s was tracked, and fires nothing and stays in Idle    *)
(* when nothing was tracked.                                               *)
C3_AbsentSnap ==
    (Processed /\ SnapAbsent)
    => /\ _previous = null
       /\ fired = IF op.prev # null
                  THEN << [type |-> "almost:out", layer |-> op.prev.layer] >>
                  ELSE << >>

C3_Witness ==
    Processed /\ SnapAbsent /\ op.prev # null /\ Len(fired) = 1 /\ _previous = null

(* C4: a processed sample that snaps to layer n from Idle fires over(n)    *)
(* with the snapped point, then move(n), no out, and n becomes tracked.    *)
C4_OverFromIdle ==
    (Processed /\ SnapPresent /\ op.prev = null)
    => /\ fired = << [type |-> "almost:over", layer |-> Snap.layer, latlng |-> Snap.latlng],
                     [type |-> "almost:move", layer |-> Snap.layer, latlng |-> Snap.latlng] >>
       /\ _previous # null
       /\ _previous.layer = Snap.layer

C4_Witness ==
    /\ Processed /\ SnapPresent /\ op.prev = null
    /\ Len(fired) = 2 /\ fired[1].type = "almost:over"
    /\ fired[1].latlng # op.arg.latlng

(* C5: a processed sample whose snap is present fires exactly one move,    *)
(* for the snapped layer and point, as its last notification; when the     *)
(* snapped layer is the tracked one, move is the only notification.        *)
C5_MoveLast ==
    (Processed /\ SnapPresent)
    => /\ Len(fired) >= 1
       /\ fired[Len(fired)] =
              [type |-> "almost:move", layer |-> Snap.layer, latlng |-> Snap.latlng]
       /\ Cardinality({i \in DOMAIN fired : fired[i].type = "almost:move"}) = 1
       /\ (op.prev # null /\ op.prev.layer = Snap.layer) => Len(fired) = 1

C5_Witness ==
    /\ Processed /\ SnapPresent
    /\ op.prev # null /\ op.prev.layer = Snap.layer
    /\ fired = << [type |-> "almost:move", layer |-> Snap.layer, latlng |-> Snap.latlng] >>

(* C2: removeLayer(x) leaves the machine in Idle and fires nothing, for    *)
(* every x and every state it is called in.                                *)
C2_RemoveResetsSilently ==
    op.kind = "removeLayer" => (_previous = null /\ fired = << >>)

C2_Witness ==
    /\ op.kind = "removeLayer"
    /\ op.prev # null /\ op.prev.layer = op.arg
    /\ _previous = null /\ fired = << >>

(* The leaf layers of a layer: itself, or the leaves of its children. *)
RECURSIVE LeavesOf(_)
LeavesOf(layer) ==
    IF LayerDef[layer].kind = "LayerGroup"
    THEN UNION {LeavesOf(LayerDef[layer].layers[i]) : i \in DOMAIN LayerDef[layer].layers}
    ELSE {layer}

Registered == {_layers[i] : i \in DOMAIN _layers}

(* C6: after removeLayer(x), neither x nor a leaf of x is registered,      *)
(* whatever addLayer and removeLayer calls came before.                    *)
C6_RemovedEverywhere ==
    op.kind = "removeLayer" => LeavesOf(op.arg) \cap Registered = {}

(* C7: a click or dblclick runs one snap check at once: it fires one       *)
(* notification of its own type with the snapped layer and point when the  *)
(* snap is present, nothing when it is absent, and changes neither         *)
(* this._previous nor this._layers.                                        *)
C7_ClickStep ==
    op'.kind \in {"click", "dblclick"}
    => /\ _previous' = _previous
       /\ _layers' = _layers
       /\ LET snapped == getClosest(_layers, op'.arg.latlng)
          IN  fired' = IF ~IsThrow(snapped) /\ snapped # null
                       THEN << [type |-> "almost:" \o op'.arg.type,
                                layer |-> snapped.layer, latlng |-> snapped.latlng] >>
                       ELSE << >>

C7_Click == [][C7_ClickStep]_vars

C7_Witness ==
    /\ op.kind = "dblclick"
    /\ lock
    /\ fired # << >> /\ fired[1].type = "almost:dblclick"
    /\ _previous # null /\ _previous.layer # fired[1].layer

-----------------------------------------------------------------------------
(* Properties of the sampling of pointer moves *)

(* C8, first clause: _onMouseMove runs at most once per sampling period,   *)
(* that is, each run starts a full period or more after the one before.    *)
C8_OneRunPerPeriod ==
    (op.kind \in {"mousemove", "later"} /\ op.ran) => op.gap = almostSamplingPeriod

(* C8, second clause: an event that arrives while the window is open is    *)
(* kept as the one pending call, and the call that later() makes is for    *)
(* the last event that arrived in the window.                              *)
C8_TrailingStep ==
    /\ (op'.kind = "mousemove" /\ ~op'.ran) => (queuedArgs' = op'.arg)
    /\ (op'.kind = "later" /\ op'.ran) => (op'.arg = lastReceived)
    /\ (op'.kind = "later" /\ lastReceived # null) => op'.ran

C8_Trailing == [][C8_TrailingStep]_vars

(* C9 as stated: after disable() at most one notification is fired. *)
C9_OneStaleNotification ==
    ~_enabled => staleFired <= 1

(* C9, amended: after disable() the events received fire nothing; only    *)
(* the call that was pending in the throttle runs, once, and it fires at   *)
(* most three notifications (out, over, move).                             *)
C9_OneStaleRun ==
    ~_enabled
    => /\ staleRuns <= 1
       /\ staleFired <= 3
       /\ fired # << >> => (op.kind = "later" /\ op.ran)

C9_Witness ==
    /\ ~_enabled
    /\ staleRuns = 1
    /\ staleFired = 3
    /\ op.kind = "later" /\ Len(fired) = 3

-----------------------------------------------------------------------------
(* Properties of the snap *)

(* what the claim says closestLayerSnap returns, given the result of       *)
(* closestLayer                                                            *)
Cutoff(result, tolerance) ==
    IF result = null THEN null
    ELSE IF result.distance > tolerance THEN null
    ELSE result

SnapIsCutoff(result, snapped) ==
    ~IsThrow(result) => snapped = Cutoff(result, almostDistance)

(* C10: the snap the state machine uses is absent exactly when the         *)
(* closestLayer search is absent or farther than almostDistance, and is    *)
(* the result of the search otherwise; a processed sample stores it.       *)
C10_SnapCutoff ==
    /\ \A latlng \in LatLngs :
           SnapIsCutoff(closestLayer(_layers, latlng), getClosest(_layers, latlng))
    /\ Processed => SnapIsCutoff(closestLayer(_layers, op.arg.latlng), _previous)

AtTolerance(result) ==
    ~IsThrow(result) /\ result # null /\ result.distance = almostDistance

C10_Witness ==
    /\ Processed
    /\ AtTolerance(closestLayer(_layers, op.arg.latlng))
    /\ _previous = closestLayer(_layers, op.arg.latlng)

-----------------------------------------------------------------------------
(* Properties of the geometry utilities called on their own *)

(* A circle whose centre is the position searched from. *)
Degenerate(layer) ==
    LayerDef[layer].kind = "Circle" /\ LayerDef[layer].latlng = geo.latlng

NotDegenerate(layer) == ~Degenerate(layer)

(* C11: when a circle of the layers is centred at the position searched    *)
(* from, closestLayer treats it as having no closest point: it returns     *)
(* what it returns for the other layers alone, and no exception leaves it. *)
C11_CircleAtQuerySkipped ==
    (geo.fn = "closestLayer" /\ \E i \in DOMAIN geo.layers : Degenerate(geo.layers[i]))
    => /\ ~IsThrow(geo.ret)
       /\ geo.ret = closestLayer(SelectSeq(geo.layers, NotDegenerate), geo.latlng)

-----------------------------------------------------------------------------
(* Properties of the handlers when the geometry fails *)

(* The step is a run of _onMouseMove or _onMouseClick whose getClosest()   *)
(* ends with an exception.                                                 *)
FailedMove ==
    /\ op'.kind \in {"mousemove", "later"} /\ op'.ran
    /\ op'.arg.latlng # NoLatLng
    /\ IsThrow(getClosest(_layers, op'.arg.latlng))

FailedClick ==
    /\ op'.kind \in {"click", "dblclick"}
    /\ IsThrow(getClosest(_layers, op'.arg.latlng))

(* C12: a geometry failure while a pointer move or a click is handled is   *)
(* dealt with as a sample that matched nothing: nothing is fired,          *)
(* this._previous and this._layers stay as they were, the handler ends     *)
(* normally (so the throttle opens its window as after any run), and the   *)
(* samples processed afterwards are processed as usual: the call made at   *)
(* the end of a window is for the last event received in that window.      *)
C12_FailureStep ==
    /\ (FailedMove \/ FailedClick)
       => (fired' = << >> /\ _previous' = _previous /\ _layers' = _layers)
    /\ FailedMove => lock'
    /\ (op'.kind = "later" /\ op'.ran) => op'.arg = lastReceived

C12_FailureIsNoMatch == [][C12_FailureStep]_vars

-----------------------------------------------------------------------------
(* Properties of the registered layers *)

(* C13: whatever addLayer and removeLayer calls were made, with groups     *)
(* nested in groups, this._layers holds leaf layers only and never a       *)
(* LayerGroup, so the array getClosest hands to closestLayerSnap holds     *)
(* none.                                                                   *)
C13_OnlyLeaves ==
    \A i \in DOMAIN _layers : LayerDef[_layers[i]].kind # "LayerGroup"

C13_Witness ==
    /\ op.kind = "addLayer" /\ op.arg = "nest"
    /\ _layers = <<"lineA", "lineB", "marker">>

(* What closestLayer makes of one of the layers taken alone. *)
candidate(i) == closestLayer(<<geo.layers[i]>>, geo.latlng)

(* C14: closestLayer returns null for an empty array of layers, and        *)
(* otherwise the result of the layer at the least distance, the minimum    *)
(* being kept with a strict <: of several layers at the least distance the *)
(* one that comes first in the array is returned.                          *)
C14_FirstMinimum ==
    (geo.fn = "closestLayer" /\ ~IsThrow(geo.ret))
    => /\ Len(geo.layers) = 0 => geo.ret = null
       /\ geo.ret = null <=> \A i \in DOMAIN geo.layers : candidate(i) = null
       /\ geo.ret # null
          => \E i \in DOMAIN geo.layers :
                 /\ geo.ret = candidate(i)
                 /\ \A j \in DOMAIN geo.layers :
                        candidate(j) # null
                        => /\ candidate(j).distance >= geo.ret.distance
                           /\ j < i => candidate(j).distance > geo.ret.distance

C14_Witness ==
    /\ geo.fn = "closestLayer"
    /\ geo.layers = <<"lineB", "lineA">>
    /\ geo.latlng = <<20, 25>>
    /\ geo.ret = [layer |-> "lineB", latlng |-> <<20, 50>>, distance |-> 25]

(* The planar distance between two positions, which this.distance(map, a,  *)
(* b) is meant to compute.                                                 *)
planarDistance(a, b) ==
    Sqrt((a[1] - b[1]) * (a[1] - b[1]) + (a[2] - b[2]) * (a[2] - b[2]))

(* The closest point of a Circle or of a layer with getLatLng. *)
pointOf(layer) ==
    IF LayerDef[layer].kind = "Circle"
    THEN closestOnCircle(LayerDef[layer], geo.latlng).latlng
    ELSE LayerDef[layer].latlng

(* What the closest branch makes of the result c of closest(). *)
lineResult(layer, c) ==
    IF c = null THEN null
    ELSE [layer |-> layer, latlng |-> c.latlng, distance |-> c.distance]

(* C15: closestLayer takes, for a Circle, the closest point of the         *)
(* circumference with its planar distance from the position; for a layer   *)
(* with getLatLng, its position with the direct planar distance; for any   *)
(* other layer, closest() in segment mode.  Each is compared, so a Circle  *)
(* or a Marker that is the only layer, hence the nearest, is returned.     *)
C15_PerKindCandidate ==
    (geo.fn = "closestLayer" /\ Len(geo.layers) = 1)
    => /\ (LayerDef[geo.layers[1]].kind \in {"Circle", "Marker"}
           /\ ~Degenerate(geo.layers[1]))
          => geo.ret = [layer |-> geo.layers[1],
                        latlng |-> pointOf(geo.layers[1]),
                        distance |-> planarDistance(geo.latlng, pointOf(geo.layers[1]))]
       /\ (LayerDef[geo.layers[1]].kind \in {"Polyline", "Polygon", "Array"}
           /\ ~IsThrow(geo.ret))
          => geo.ret = lineResult(geo.layers[1],
                                  closest(LayerDef[geo.layers[1]], geo.latlng, FALSE))

(* The result of closest() is the point of segment k of latlngs, and k is  *)
(* the last of the segments at the least distance.                         *)
LastClosestSegment(latlngs, result) ==
    \E k \in 1..(Len(latlngs) - 1) :
        /\ result = [latlng |-> closestOnSegment(geo.latlng, latlngs[k], latlngs[k + 1]),
                     distance |-> distanceSegment(geo.latlng, latlngs[k], latlngs[k + 1])]
        /\ \A j \in 1..(Len(latlngs) - 1) :
               /\ distanceSegment(geo.latlng, latlngs[j], latlngs[j + 1]) >= result.distance
               /\ j > k => distanceSegment(geo.latlng, latlngs[j], latlngs[j + 1])
                               > result.distance

sqDistance(a, b) ==
    (a[1] - b[1]) * (a[1] - b[1]) + (a[2] - b[2]) * (a[2] - b[2])

(* The result of closest() is vertex k of latlngs, and k is the first of   *)
(* the vertices at the least distance.                                     *)
FirstClosestVertex(latlngs, result) ==
    /\ ~IsThrow(result)
    /\ result # null
    /\ \E k \in DOMAIN latlngs :
           /\ result.latlng = latlngs[k]
           /\ \A j \in DOMAIN latlngs :
                  /\ sqDistance(geo.latlng, latlngs[j]) >= sqDistance(geo.latlng, latlngs[k])
                  /\ j < k => sqDistance(geo.latlng, latlngs[j])
                                  > sqDistance(geo.latlng, latlngs[k])

(* The result of closest() is that of sub-line k of latlngs, and k is the  *)
(* first of the sub-lines at the least distance.                           *)
FirstClosestChild(latlngs, result) ==
    \E k \in DOMAIN latlngs :
        /\ result = closestFlat(latlngs[k], geo.latlng, FALSE)
        /\ \A j \in DOMAIN latlngs :
               /\ closestFlat(latlngs[j], geo.latlng, FALSE).distance >= result.distance
               /\ j < k => closestFlat(latlngs[j], geo.latlng, FALSE).distance
                               > result.distance

FlatLine(layer) == layer.kind = "Polyline" /\ isFlat(layer)

NestedLine(layer) ==
    /\ layer.kind = "Polyline" /\ ~isFlat(layer)
    /\ \A k \in DOMAIN layer.latlngs : Len(layer.latlngs[k]) >= 2

(* C16: closest() resolves equal distances differently by mode: among the  *)
(* segments of a line the last one at the least distance gives the result  *)
(* (<=), among its vertices, in vertex mode, the first one (<), and among  *)
(* the sub-lines of a nested line the first one (<).                       *)
C16_TieBreaks ==
    geo.fn = "closest"
    => /\ (FlatLine(LayerDef[geo.arg.layer]) /\ ~geo.arg.vertices
           /\ Len(LayerDef[geo.arg.layer].latlngs) >= 2)
          => LastClosestSegment(LayerDef[geo.arg.layer].latlngs, geo.ret)
       /\ (NestedLine(LayerDef[geo.arg.layer]) /\ ~geo.arg.vertices)
          => FirstClosestChild(LayerDef[geo.arg.layer].latlngs, geo.ret)
       /\ (FlatLine(LayerDef[geo.arg.layer]) /\ geo.arg.vertices
           /\ Len(LayerDef[geo.arg.layer].latlngs) >= 1)
          => FirstClosestVertex(LayerDef[geo.arg.layer].latlngs, geo.ret)

(* The vertex after vertex k on a ring of n vertices. *)
NextOnRing(k, n) == (k % n) + 1

(* The result of closest() is the point of an edge of a ring of the        *)
(* polygon, the edge from the last vertex back to the first included, and  *)
(* no edge of any ring is closer.                                          *)
ClosestOnRings(rings, result) ==
    /\ result # null
    /\ \E r \in DOMAIN rings : \E k \in DOMAIN rings[r] :
           result = [latlng |-> closestOnSegment(geo.latlng, rings[r][k],
                                    rings[r][NextOnRing(k, Len(rings[r]))]),
                     distance |-> distanceSegment(geo.latlng, rings[r][k],
                                      rings[r][NextOnRing(k, Len(rings[r]))])]
    /\ \A r \in DOMAIN rings : \A k \in DOMAIN rings[r] :
           result.distance <= distanceSegment(geo.latlng, rings[r][k],
                                  rings[r][NextOnRing(k, Len(rings[r]))])

(* C17: for a Polygon, closest() in segment mode searches the segment from *)
(* the last vertex of each ring back to its first along with the others,   *)
(* and the polygon's own array of vertices is after the call what it was   *)
(* before.                                                                 *)
C17_ClosingSegment ==
    (geo.fn = "closest" /\ LayerDef[geo.arg.layer].kind = "Polygon"
     /\ ~geo.arg.vertices /\ ~IsThrow(geo.ret))
    => /\ ClosestOnRings(LayerDef[geo.arg.layer].latlngs, geo.ret)
       /\ geo.own = LayerDef[geo.arg.layer].latlngs

C17_Witness ==
    /\ geo.fn = "closest" /\ geo.arg.layer = "holed" /\ ~geo.arg.vertices
    /\ geo.latlng = <<20, 70>>
    /\ geo.ret = [latlng |-> <<20, 73>>, distance |-> 3]
    /\ geo.own = LayerDef["holed"].latlngs

(* A point list that has a segment; one that has a point. *)
HasSegment(latlngs) == Len(latlngs) >= 2
HasPoint(latlngs) == Len(latlngs) >= 1

(* The layer without the sub-lines that have no segment, or the rings that *)
(* have no point.                                                          *)
WithoutCollapsed(layer) ==
    IF layer.kind = "Polygon"
    THEN [layer EXCEPT !.latlngs = SelectSeq(@, HasPoint)]
    ELSE [layer EXCEPT !.latlngs = SelectSeq(@, HasSegment)]

(* C18: closest() returns null, and does not fail, for a point list with   *)
(* fewer than 2 points in segment mode or with no point in vertex mode;    *)
(* when such a list is a sub-line or a ring of a nested layer, or an empty *)
(* array, the result is that of the other parts (null when none is left).  *)
C18_CollapsedIsAbsent ==
    (geo.fn = "closest"
     /\ LayerDef[geo.arg.layer].kind \in {"Polyline", "Polygon", "Array"})
    => /\ (isFlat(LayerDef[geo.arg.layer]) /\ ~geo.arg.vertices
           /\ ~HasSegment(LayerDef[geo.arg.layer].latlngs))
          => geo.ret = null
       /\ (isFlat(LayerDef[geo.arg.layer]) /\ geo.arg.vertices
           /\ ~HasPoint(LayerDef[geo.arg.layer].latlngs))
          => geo.ret = null
       /\ (~isFlat(LayerDef[geo.arg.layer]) /\ ~geo.arg.vertices)
          => geo.ret = closest(WithoutCollapsed(LayerDef[geo.arg.layer]),
                               geo.latlng, FALSE)

(* How many times a layer occurs in an array, and the leaf layers reached  *)
(* from a layer through LayerGroups.                                       *)
Count(layers, layer) == Cardinality({i \in DOMAIN layers : layers[i] = layer})
Leaves(layer) == {l \in Descendants(layer) : IsLeaf(l)}

(* C19: addLayer(g) and removeLayer(g) come to an end for every group,     *)
(* one that contains itself included, and deal with each leaf layer of g   *)
(* once: addLayer pushes it once, removeLayer takes one occurrence out.    *)
C19_EachLeafOnce ==
    /\ geo.fn = "addLayer"
       => /\ ~geo.ret.threw
          /\ \A l \in DOMAIN LayerDef :
                 Count(geo.ret.layers, l) =
                     Count(registered(geo.layers), l)
                     + (IF l \in Leaves(geo.arg.layer) THEN 1 ELSE 0)
    /\ geo.fn = "removeLayer"
       => /\ ~geo.ret.threw
          /\ \A l \in DOMAIN LayerDef :
                 Count(geo.ret.layers, l) =
                     Count(registered(geo.layers), l)
                     - (IF l \in Leaves(geo.arg.layer)
                           /\ Count(registered(geo.layers), l) > 0 THEN 1 ELSE 0)

-----------------------------------------------------------------------------
(* Properties of enable() and disable() *)

(* What a sample fires when nothing is tracked, snapped being what         *)
(* getClosest() returned for it.                                           *)
FiredFromIdle(snapped) ==
    IF snapped # null THEN <<Over(snapped), Move(snapped)>> ELSE << >>

(* The step runs _onMouseMove on the first sample after enable(). *)
FirstSampleStep ==
    /\ op.kind = "addHooks"
    /\ op'.kind = "mousemove" /\ op'.ran
    /\ op'.arg.latlng # NoLatLng
    /\ ~IsThrow(getClosest(_layers, op'.arg.latlng))

(* C20: tracking starts from Idle each time it is enabled: the first       *)
(* sample processed after disable() and enable() fires over (then move)    *)
(* for the layer it snaps to, and nothing when it snaps to none, whatever  *)
(* was tracked before disable().                                           *)
C20_FirstSampleStep ==
    FirstSampleStep => fired' = FiredFromIdle(getClosest(_layers, op'.arg.latlng))

C20_EnableStartsIdle == [][C20_FirstSampleStep]_vars

-----------------------------------------------------------------------------
(* Properties of the tracked layer *)

(* The handler is tracking a layer. *)
Tracking == _previous # null

(* C21: in every reachable state, whatever addLayer, removeLayer,          *)
(* mousemove and click calls led to it, a tracked layer is one of the      *)
(* layers currently registered in this._layers.                            *)
C21_TrackedIsRegistered ==
    Tracking => \E i \in DOMAIN _layers : _layers[i] = _previous.layer

(* lineB is tracked anew by the trailing sample of a period, after a       *)
(* removeLayer (or nothing) left the handler idle, with lineA registered   *)
(* as well.                                                                *)
C21_Witness ==
    /\ Tracking /\ _previous.layer = "lineB"
    /\ op.kind = "later" /\ op.ran /\ op.prev = null
    /\ \E i \in DOMAIN _layers : _layers[i] = "lineA"

-----------------------------------------------------------------------------
(* Properties of the sequence of notifications *)

(* The almost:over notification of a layer, as it is recorded. *)
OverOf(layer) == [type |-> "almost:over", layer |-> layer]

(* The k-th notification of the step is an almost:out, and the last        *)
(* almost:over or almost:out fired before it, in this step or in an        *)
(* earlier one, is not the almost:over of the same layer.                  *)
UnmatchedOut(k) ==
    /\ fired'[k].type = "almost:out"
    /\ lastAnnounced(announced, SubSeq(fired', 1, k - 1), 1) # OverOf(fired'[k].layer)

C22_MatchedStep == \A k \in DOMAIN fired' : ~UnmatchedOut(k)

(* C22: in the sequence of notifications of any interleaving of addLayer,  *)
(* removeLayer, mousemove samples and clicks, every almost:out is matched: *)
(* the most recent almost:over or almost:out fired before it is the        *)
(* almost:over of the same layer.  No almost:out is fired for a layer      *)
(* other than the one announced, and none twice in a row.                  *)
C22_OutIsMatched == [][C22_MatchedStep]_vars

(* A sample that misses has just fired the almost:out of lineA, which was *)
(* tracked, and nothing else.                                              *)
C22_Witness ==
    /\ op.ran /\ op.prev # null
    /\ fired = <<Out(op.prev)>>
    /\ announced = [type |-> "almost:out", layer |-> "lineA"]
    /\ _previous = null

-----------------------------------------------------------------------------
(* Properties of closestLayerSnap *)

(* closestLayerSnap was called and the search it starts with returned. *)
Snapped ==
    /\ geo.fn = "closestLayerSnap"
    /\ ~IsThrow(closestLayer(geo.layers, geo.latlng))

(* The result, when there is one, lies within the tolerance of the         *)
(* position asked for, its distance being measured from that position.     *)
WithinTolerance(result, latlng, tolerance) ==
    result # null
    => /\ result.distance <= tolerance
       /\ result.distance = planarDistance(latlng, result.latlng)

(* The search found a line or a polygon within the tolerance, which the    *)
(* vertex refinement then looks at.                                        *)
Refined ==
    /\ Snapped /\ geo.arg.withVertices
    /\ closestLayer(geo.layers, geo.latlng) # null
    /\ closestLayer(geo.layers, geo.latlng).distance <= geo.arg.tolerance
    /\ HasGetLatLngs(closestLayer(geo.layers, geo.latlng).layer)

(* C23: with or without vertex refinement, closestLayerSnap returns null   *)
(* or a result whose distance, measured from the position asked for, is at *)
(* most the tolerance; with vertex refinement the vertex is looked up and  *)
(* its distance from the position is computed.                             *)
C23_SnapWithinTolerance ==
    Snapped => /\ ~IsThrow(geo.ret)
               /\ WithinTolerance(geo.ret, geo.latlng, geo.arg.tolerance)

(* What the code keeps of it: a result that is returned is within the     *)
(* tolerance.                                                              *)
ReturnedWithinTolerance ==
    (Snapped /\ ~IsThrow(geo.ret))
    => WithinTolerance(geo.ret, geo.latlng, geo.arg.tolerance)

(* The vertex refinement never returns. *)
RefinementThrows == Refined => geo.ret = TypeError

(* Without it closestLayerSnap returns whenever the search does. *)
UnrefinedReturns == (Snapped /\ ~Refined) => ~IsThrow(geo.ret)

-----------------------------------------------------------------------------
(* Properties of closestLayer and layers without a closest point *)

(* The i-th layer is a line or a polygon for which closest() returns null. *)
AbsentShape(i) ==
    /\ HasGetLatLngs(geo.layers[i])
    /\ closest(LayerDef[geo.layers[i]], geo.latlng, FALSE) = null

(* v is a point <<x, y>> and not null. *)
IsPoint(v) == Cardinality(DOMAIN v) = 2

(* closestLayer returned a result. *)
Found == geo.fn = "closestLayer" /\ ~IsThrow(geo.ret) /\ geo.ret # null

(* C24: in closestLayer, a line or polygon for which closest() returns     *)
(* null is never the layer of the result and never gives a result whose    *)
(* latlng is null, whether it comes first, last or between other layers:   *)
(* the distance left from the layer looked at before it does not make it   *)
(* win.                                                                    *)
C24_AbsentNeverWins ==
    Found => /\ \A i \in DOMAIN geo.layers :
                    AbsentShape(i) => geo.ret.layer # geo.layers[i]
             /\ IsPoint(geo.ret.latlng)

(* A line of one point comes after the line that is returned. *)
C24_Witness ==
    /\ Found
    /\ Len(geo.layers) > 1
    /\ AbsentShape(Len(geo.layers))
    /\ geo.ret.layer = geo.layers[1]

====
